---- MODULE Spec2Model ----
(***************************************************************************)
(* State-machine model of video_downloader.py: the command driver (main),  *)
(* the option translation and engine invocation of download_video, the     *)
(* progress_hook callback and list_formats.  The extraction engine         *)
(* (yt_dlp.YoutubeDL) is external: each call into it is a nondeterministic *)
(* choice between returning and raising.                                   *)
(*                                                                         *)
(* Encoding of Python values:                                              *)
(*   - a dict is a function whose domain is the set of keys present;       *)
(*   - an optional object (None or a value) is a sequence of length 0 or 1;*)
(*   - None in an integer field of a format record is NoneInt (-1);        *)
(*   - every printed line is recorded in out as [line |-> n, text |-> s],  *)
(*     n being the source line of the print statement; the emoji that      *)
(*     prefix the messages are left out of s.                              *)
(***************************************************************************)
EXTENDS Integers, Sequences, FiniteSets, TLC

\* Bounds of the model
MaxStart == 2
MaxEvents == 2
MaxFormats == 2
MaxEntries == 2

None == <<>>
Some(v) == <<v>>
NoneInt == 0 - 1

EmptyDict == [k \in {} |-> 0]
Get(d, k, default) == IF k \in DOMAIN d THEN d[k] ELSE default
Update(d, u) == u @@ d

\* Truth value of an optional string: None and "" are false
TruthyStr(o) == o # None /\ o[1] # ""
\* Truth value of an integer-or-None: None and 0 are false
TruthyInt(n) == n # NoneInt /\ n # 0

Line(n, s) == [line |-> n, text |-> s]

----------------------------------------------------------------------------
(* Inputs *)

Qualities == {"best", "worst", "720", "1080", "bogus"}
FormatCodes == {None, Some(""), Some("137+140")}
Url == "https://example.com/video"

DownloadArgs ==
    [command : {"download"}, url : {Url}, output : {"downloads"},
     quality : Qualities, audio : BOOLEAN, format : FormatCodes,
     subtitle : BOOLEAN, start : 1..MaxStart, no_playlist : BOOLEAN]

\* list_formats receives the url only: the other options keep their defaults
ListArgs ==
    [command : {"list"}, url : {Url}, output : {"downloads"},
     quality : {"best"}, audio : {FALSE}, format : {None},
     subtitle : {FALSE}, start : {1}, no_playlist : {FALSE}]

KeyboardInterrupt == [type |-> "KeyboardInterrupt", msg |-> ""]
NoExc == [type |-> "", msg |-> ""]
\* What a call into the engine can raise
EngineRaises ==
    {KeyboardInterrupt,
     [type |-> "DownloadError", msg |-> "ERROR: Unsupported URL"]}
\* Exception (as opposed to BaseException) subclasses
IsException(e) == e.type \notin {"", "KeyboardInterrupt"}

\* Results of extract_info(url, download=False) for the download command
Entries == {[i \in 1..n |-> "entry"] : n \in 0..MaxEntries}
DownloadInfos ==
    {None, Some(EmptyDict), Some([title |-> "Clip"])}
    \cup {Some([title |-> "Mix", entries |-> es]) : es \in Entries}

\* Progress dictionaries the engine hands to the hooks
ProgressFields == {"_percent_str", "_speed_str", "_eta_str"}
FieldValue(k) ==
    IF k = "_percent_str" THEN "42.0%"
    ELSE IF k = "_speed_str" THEN "1.2MiB/s" ELSE "00:10"
Event(st, S) ==
    [k \in S \cup {"status"} |-> IF k = "status" THEN st ELSE FieldValue(k)]
ProgressEvents ==
    {Event("downloading", S) : S \in SUBSET ProgressFields}
    \cup {Event(st, {}) : st \in {"finished", "error", "processing"}}
    \cup {[k \in S |-> FieldValue(k)] : S \in {{}, ProgressFields}}

\* Format records of extract_info for the list command.  A size field is
\* absent, None (NoneInt) or a number of bytes.
FormatBases ==
    {[format_id |-> "18", ext |-> "mp4", resolution |-> "640x360",
      vcodec |-> "avc1", format_note |-> "360p"],
     [format_id |-> "140", ext |-> "m4a", vcodec |-> "none"],
     [ext |-> "webm"]}
ApproxSizes == {NoneInt, 1572864}
ExactSizes == {NoneInt, 0, 786432}
WithSizes(b) ==
    {b} \cup {[filesize_approx |-> a] @@ b : a \in ApproxSizes}
        \cup {[filesize |-> x] @@ b : x \in ExactSizes}
        \cup {[filesize_approx |-> a, filesize |-> x] @@ b :
                a \in ApproxSizes, x \in ExactSizes}
FormatRecords == UNION {WithSizes(b) : b \in FormatBases}
ListInfos ==
    {None, Some([title |-> "Clip"])}
    \cup {Some([title |-> "Clip", formats |-> fs]) :
            fs \in UNION {[1..n -> FormatRecords] : n \in 0..MaxFormats}}

----------------------------------------------------------------------------
(* download_video: option translation *)

JoinPath(dir, name) == dir \o "/" \o name

\* Variant: the playlist start index is left at its default
BaseOptions_DefaultStart(output_dir, start, no_playlist) ==
    [outtmpl |-> JoinPath(output_dir, "%(title)s.%(ext)s"),
     ignoreerrors |-> TRUE,
     playliststart |-> 1,
     noplaylist |-> no_playlist,
     retries |-> 5,
     fragment_retries |-> 5,
     progress_hooks |-> <<"progress_hook">>]

BaseOptions(output_dir, start, no_playlist) ==
    [outtmpl |-> JoinPath(output_dir, "%(title)s.%(ext)s"),
     ignoreerrors |-> TRUE,
     playliststart |-> start,
     noplaylist |-> no_playlist,
     retries |-> 5,
     fragment_retries |-> 5,
     progress_hooks |-> <<"progress_hook">>]

\* Variant: the height cap is applied to the video stream only
HeightSelector_OneCap(quality) ==
    "bestvideo[height<=" \o quality \o "]+bestaudio/best"

HeightSelector(quality) ==
    "bestvideo[height<=" \o quality \o "]+bestaudio/best[height<=" \o quality \o "]"

\* Variant: format_code is tested before audio_only
FormatOptions_FormatFirst(audio_only, quality, format_code) ==
    IF TruthyStr(format_code) THEN [format |-> format_code[1]]
    ELSE IF audio_only THEN
        [format |-> "bestaudio/best",
         postprocessors |-> << [key |-> "FFmpegExtractAudio",
                                preferredcodec |-> "mp3",
                                preferredquality |-> "192"] >>]
    ELSE IF quality = "best" THEN [format |-> "bestvideo+bestaudio/best"]
    ELSE IF quality = "worst" THEN [format |-> "worst"]
    ELSE [format |-> HeightSelector(quality)]

\* The dict merged into ydl_opts by the audio / format branches
FormatOptions(audio_only, quality, format_code) ==
    IF audio_only THEN
        [format |-> "bestaudio/best",
         postprocessors |-> << [key |-> "FFmpegExtractAudio",
                                preferredcodec |-> "mp3",
                                preferredquality |-> "192"] >>]
    ELSE IF TruthyStr(format_code) THEN [format |-> format_code[1]]
    ELSE IF quality = "best" THEN [format |-> "bestvideo+bestaudio/best"]
    ELSE IF quality = "worst" THEN [format |-> "worst"]
    ELSE [format |-> HeightSelector(quality)]

FormatMessage(audio_only, quality, format_code) ==
    IF audio_only THEN Line(65, "Mode: Audio only (MP3)")
    ELSE IF TruthyStr(format_code)
        THEN Line(71, "Mode: Custom format (" \o format_code[1] \o ")")
    ELSE IF quality = "best" THEN Line(74, "Mode: Best quality")
    ELSE IF quality = "worst" THEN Line(77, "Mode: Lowest quality")
    ELSE Line(80, "Mode: Up to " \o quality \o "p quality")

SubtitleOptions(subtitle) ==
    IF subtitle THEN
        [writesubtitles |-> TRUE,
         writeautomaticsub |-> TRUE,
         subtitleslangs |-> <<"en">>]
    ELSE EmptyDict

BuildOptions(a) ==
    Update(Update(BaseOptions(a.output, a.start, a.no_playlist),
                  FormatOptions(a.audio, a.quality, a.format)),
           SubtitleOptions(a.subtitle))

BuildMessages(a) ==
    <<FormatMessage(a.audio, a.quality, a.format)>>
    \o (IF a.subtitle THEN <<Line(89, "Subtitles: Enabled")>> ELSE <<>>)
    \o <<Line(91, "Output: /cwd/" \o a.output),
         Line(92, "URL: " \o a.url \o "\n")>>

----------------------------------------------------------------------------
(* progress_hook *)

\* [raises |-> exception type or "", printed |-> the line printed, if any]
progress_hook(d) ==
    IF "status" \notin DOMAIN d
        THEN [raises |-> "KeyError", printed |-> None]
    ELSE IF d["status"] = "downloading" THEN
        [raises |-> "",
         printed |-> Some(Line(125,
            "\r" \o Get(d, "_percent_str", "N/A") \o " at "
                 \o Get(d, "_speed_str", "N/A") \o " (ETA: "
                 \o Get(d, "_eta_str", "N/A") \o ")   "))]
    ELSE IF d["status"] = "finished" THEN
        [raises |-> "",
         printed |-> Some(Line(127,
            "\rDownload finished, processing...             "))]
    ELSE [raises |-> "", printed |-> None]

----------------------------------------------------------------------------
(* State *)

VARIABLES
    pc,          \* position of the run
    args,        \* parsed command line
    ydl_opts,    \* options dict handed to YoutubeDL
    info,        \* result of extract_info
    calls,       \* calls into the engine, in order, with their outcome
    exc,         \* exception in flight
    retval,      \* return value of download_video
    out,         \* printed lines
    event,       \* last progress dict delivered to the hook
    hook,        \* result of the last progress_hook invocation
    nevents      \* progress events delivered so far

vars == <<pc, args, ydl_opts, info, calls, exc, retval, out, event, hook, nevents>>

Call(fn, outcome) == [fn |-> fn, outcome |-> outcome]

Init ==
    /\ pc = "main"
    /\ args \in DownloadArgs \cup ListArgs
    /\ ydl_opts = EmptyDict
    /\ info = None
    /\ calls = <<>>
    /\ exc = NoExc
    /\ retval = "unset"
    /\ out = <<>>
    /\ event = None
    /\ hook = [raises |-> "", printed |-> None]
    /\ nevents = 0

----------------------------------------------------------------------------
(* main *)

check_dependencies(ffmpeg) ==
    IF ffmpeg THEN <<>>
    ELSE <<Line(17, "Warning: FFmpeg is not installed"),
           Line(18, "   Some features (audio extraction, format conversion) may not work"),
           Line(19, "   Install: sudo apt install ffmpeg  (or brew install ffmpeg on macOS)")>>

Main ==
    /\ pc = "main"
    /\ \E ffmpeg \in BOOLEAN :
        out' = out \o check_dependencies(ffmpeg) \o <<Line(207, "")>>
    /\ pc' = IF args.command = "list" THEN "list_formats" ELSE "download_video"
    /\ UNCHANGED <<args, ydl_opts, info, calls, exc, retval, event, hook, nevents>>

----------------------------------------------------------------------------
(* download_video *)

\* lines 41-92: build ydl_opts and print the summary of the request
DownloadBuild ==
    /\ pc = "download_video"
    /\ ydl_opts' = BuildOptions(args)
    /\ out' = out \o BuildMessages(args)
    /\ pc' = "construct"
    /\ UNCHANGED <<args, info, calls, exc, retval, event, hook, nevents>>

\* line 95: YoutubeDL(ydl_opts)
DownloadConstruct ==
    /\ pc = "construct"
    /\ \/ /\ calls' = Append(calls, Call("YoutubeDL", "ok"))
          /\ pc' = "extract_info"
          /\ exc' = exc
       \/ \E e \in EngineRaises :
          /\ calls' = Append(calls, Call("YoutubeDL", e.type))
          /\ exc' = e
          /\ pc' = "except"
    /\ UNCHANGED <<args, ydl_opts, info, retval, out, event, hook, nevents>>

\* line 97: info = ydl.extract_info(url, download=False)
DownloadExtract ==
    /\ pc = "extract_info"
    /\ \/ \E i \in DownloadInfos :
          /\ info' = i
          /\ calls' = Append(calls, Call("extract_info", IF i = None THEN "None" ELSE "ok"))
          /\ pc' = "summary"
          /\ exc' = exc
       \/ \E e \in EngineRaises :
          /\ calls' = Append(calls, Call("extract_info", e.type))
          /\ exc' = e
          /\ pc' = "except"
          /\ info' = info
    /\ UNCHANGED <<args, ydl_opts, retval, out, event, hook, nevents>>

SummaryLines(i, start) ==
    IF "entries" \in DOMAIN i THEN
        <<Line(101, "Playlist detected: " \o Get(i, "title", "Unknown")
                     \o " (" \o ToString(Len(i["entries"])) \o " videos)")>>
        \o (IF start > 1
                THEN <<Line(103, "Starting from video #" \o ToString(start) \o "\n")>>
                ELSE <<>>)
    ELSE <<Line(105, "Single video: " \o Get(i, "title", "Unknown") \o "\n")>>

\* Variant: a dry run without metadata does not stop the run
DownloadSummary_NoNoneCheck ==
    /\ pc = "summary"
    /\ out' = out \o (IF info = None THEN <<>> ELSE SummaryLines(info[1], args.start))
    /\ pc' = "download"
    /\ UNCHANGED <<args, ydl_opts, info, calls, exc, retval, event, hook, nevents>>

\* lines 99-105: 'entries' in info raises TypeError when info is None
DownloadSummary ==
    /\ pc = "summary"
    /\ IF info = None
        THEN /\ exc' = [type |-> "TypeError",
                        msg |-> "argument of type 'NoneType' is not iterable"]
             /\ pc' = "except"
             /\ out' = out
        ELSE /\ out' = out \o SummaryLines(info[1], args.start)
             /\ pc' = "download"
             /\ exc' = exc
    /\ UNCHANGED <<args, ydl_opts, info, calls, retval, event, hook, nevents>>

\* line 108: ydl.download([url]) is entered
DownloadStart ==
    /\ pc = "download"
    /\ calls' = Append(calls, Call("download", "running"))
    /\ pc' = "downloading"
    /\ UNCHANGED <<args, ydl_opts, info, exc, retval, out, event, hook, nevents>>

Finish(cs, outcome) == [cs EXCEPT ![Len(cs)].outcome = outcome]

\* the engine fires the registered hook; an exception of the hook is either
\* reported and swallowed by the engine or raised out of download
DownloadProgress ==
    /\ pc = "downloading"
    /\ nevents < MaxEvents
    /\ \E d \in ProgressEvents :
        /\ event' = Some(d)
        /\ hook' = progress_hook(d)
        /\ nevents' = nevents + 1
        /\ IF progress_hook(d).raises = ""
            THEN UNCHANGED <<pc, exc, calls>>
            ELSE \/ UNCHANGED <<pc, exc, calls>>
                 \/ /\ exc' = [type |-> progress_hook(d).raises, msg |-> "'status'"]
                    /\ calls' = Finish(calls, progress_hook(d).raises)
                    /\ pc' = "except"
    /\ UNCHANGED <<args, ydl_opts, info, retval, out>>

\* lines 108-110: download returns; success is reported
DownloadReturn ==
    /\ pc = "downloading"
    /\ calls' = Finish(calls, "ok")
    /\ out' = Append(out, Line(109, "\nDownload completed successfully!"))
    /\ retval' = "True"
    /\ pc' = "done"
    /\ UNCHANGED <<args, ydl_opts, info, exc, event, hook, nevents>>

\* line 108: download raises
DownloadRaise ==
    /\ pc = "downloading"
    /\ \E e \in EngineRaises :
        /\ calls' = Finish(calls, e.type)
        /\ exc' = e
    /\ pc' = "except"
    /\ UNCHANGED <<args, ydl_opts, info, retval, out, event, hook, nevents>>

\* Variant: only the "except Exception" clause, as in list_formats
download_video_except_NoInterrupt(e) ==
    IF IsException(e)
        THEN [caught |-> TRUE,
              printed |-> <<Line(116, "\nError: " \o e.msg)>>]
    ELSE [caught |-> FALSE, printed |-> <<>>]

\* lines 112-117: which except clause of download_video takes the exception
download_video_except(e) ==
    IF e.type = "KeyboardInterrupt"
        THEN [caught |-> TRUE,
              printed |-> <<Line(113, "\n\nDownload cancelled by user")>>]
    ELSE IF IsException(e)
        THEN [caught |-> TRUE,
              printed |-> <<Line(116, "\nError: " \o e.msg)>>]
    ELSE [caught |-> FALSE, printed |-> <<>>]

DownloadExcept ==
    /\ pc = "except"
    /\ out' = out \o download_video_except(exc).printed
    /\ IF download_video_except(exc).caught
        THEN /\ retval' = "False"
             /\ exc' = NoExc
             /\ pc' = "done"
        ELSE /\ retval' = retval
             /\ exc' = exc
             /\ pc' = "crashed"
    /\ UNCHANGED <<args, ydl_opts, info, calls, event, hook, nevents>>

----------------------------------------------------------------------------
(* list_formats *)

RECURSIVE Spaces(_)
Spaces(n) == IF n <= 0 THEN "" ELSE " " \o Spaces(n - 1)

\* "{:<w}".format(s)
Ljust(s, w) == s \o Spaces(w - Len(s))

\* "{:<10} {:<15} {:<10} {:<15} {:<10}".format(a, b, c, d, e)
FormatRow(a, b, c, d, e) ==
    Ljust(a, 10) \o " " \o Ljust(b, 15) \o " " \o Ljust(c, 10) \o " "
    \o Ljust(d, 15) \o " " \o Ljust(e, 10)

\* f"{filesize / 1024 / 1024:.1f}": the quotient is exact in binary floating
\* point, and the conversion rounds it to the nearest tenth, ties to even
Tenths(filesize) ==
    LET q == (filesize * 10) \div 1048576
        r == (filesize * 10) % 1048576
    IN  IF 2 * r > 1048576 \/ (2 * r = 1048576 /\ q % 2 = 1) THEN q + 1 ELSE q

OneDecimal(filesize) ==
    ToString(Tenths(filesize) \div 10) \o "." \o ToString(Tenths(filesize) % 10)

\* lines 152-153
filesize_of(f) == Get(f, "filesize_approx", Get(f, "filesize", 0))
filesize_str(f) ==
    IF TruthyInt(filesize_of(f)) THEN OneDecimal(filesize_of(f)) \o "MB" ELSE "N/A"

\* lines 149-158: the row printed for one format record
format_row(f) ==
    FormatRow(Get(f, "format_id", "N/A"),
              Get(f, "ext", "N/A"),
              Get(f, "resolution",
                  IF "vcodec" \in DOMAIN f /\ f["vcodec"] = "none"
                      THEN "audio only" ELSE "N/A"),
              filesize_str(f),
              Get(f, "format_note", ""))

RECURSIVE Dashes(_)
Dashes(n) == IF n <= 0 THEN "" ELSE "-" \o Dashes(n - 1)

\* lines 142-163
TableLines(i) ==
    IF "formats" \in DOMAIN i THEN
        <<Line(143, "\n" \o FormatRow("FORMAT", "EXTENSION", "RESOLUTION", "FILESIZE", "NOTE")),
          Line(146, Dashes(70))>>
        \o [k \in 1..Len(i["formats"]) |-> Line(156, format_row(i["formats"][k]))]
        \o <<Line(160, "\nUse -f FORMAT_ID to download a specific format"),
             Line(161, "   Example: python script.py download URL -f 137+140")>>
    ELSE <<Line(163, "No format information available")>>

\* lines 131-139: announce, build the options, YoutubeDL(ydl_opts)
ListConstruct ==
    /\ pc = "list_formats"
    /\ out' = Append(out, Line(131, "Available formats for: " \o args.url \o "\n"))
    /\ ydl_opts' = [quiet |-> FALSE, no_warnings |-> FALSE]
    /\ \/ /\ calls' = Append(calls, Call("YoutubeDL", "ok"))
          /\ pc' = "list_extract"
          /\ exc' = exc
       \/ \E e \in EngineRaises :
          /\ calls' = Append(calls, Call("YoutubeDL", e.type))
          /\ exc' = e
          /\ pc' = "list_except"
    /\ UNCHANGED <<args, info, retval, event, hook, nevents>>

\* line 140
ListExtract ==
    /\ pc = "list_extract"
    /\ \/ \E i \in ListInfos :
          /\ info' = i
          /\ calls' = Append(calls, Call("extract_info", IF i = None THEN "None" ELSE "ok"))
          /\ pc' = "list_print"
          /\ exc' = exc
       \/ \E e \in EngineRaises :
          /\ calls' = Append(calls, Call("extract_info", e.type))
          /\ exc' = e
          /\ pc' = "list_except"
          /\ info' = info
    /\ UNCHANGED <<args, ydl_opts, retval, out, event, hook, nevents>>

\* lines 142-163: 'formats' in info raises TypeError when info is None
ListPrint ==
    /\ pc = "list_print"
    /\ IF info = None
        THEN /\ exc' = [type |-> "TypeError",
                        msg |-> "argument of type 'NoneType' is not iterable"]
             /\ pc' = "list_except"
             /\ out' = out
        ELSE /\ out' = out \o TableLines(info[1])
             /\ pc' = "done"
             /\ exc' = exc
    /\ UNCHANGED <<args, ydl_opts, info, calls, retval, event, hook, nevents>>

\* lines 165-166: the only except clause of list_formats
list_formats_except(e) ==
    IF IsException(e)
        THEN [caught |-> TRUE,
              printed |-> <<Line(166, "Error listing formats: " \o e.msg)>>]
    ELSE [caught |-> FALSE, printed |-> <<>>]

\* an exception list_formats does not catch leaves main as well
ListExcept ==
    /\ pc = "list_except"
    /\ out' = out \o list_formats_except(exc).printed
    /\ IF list_formats_except(exc).caught
        THEN /\ exc' = NoExc
             /\ pc' = "done"
        ELSE /\ exc' = exc
             /\ pc' = "crashed"
    /\ UNCHANGED <<args, ydl_opts, info, calls, retval, event, hook, nevents>>

Next ==
    \/ Main
    \/ DownloadBuild
    \/ DownloadConstruct
    \/ DownloadExtract
    \/ DownloadSummary
    \/ DownloadStart
    \/ DownloadProgress
    \/ DownloadReturn
    \/ DownloadRaise
    \/ DownloadExcept
    \/ ListConstruct
    \/ ListExtract
    \/ ListPrint
    \/ ListExcept

Spec == Init /\ [][Next]_vars

----------------------------------------------------------------------------
(* Properties *)

\* download_video has built its options
Built == args.command = "download" /\ pc \notin {"main", "download_video"}
Terminal == pc \in {"done", "crashed"}
Printed(n) == \E k \in DOMAIN out : out[k].line = n
Lines(n) == SelectSeq(out, LAMBDA l : l.line = n)
Count(fn) == Cardinality({k \in DOMAIN calls : calls[k].fn = fn})
Interrupted(fn) ==
    \E k \in DOMAIN calls :
        calls[k].fn = fn /\ calls[k].outcome = "KeyboardInterrupt"
NumericQualities == {"720", "1080"}

\* C1: with audio_only the format selector is "bestaudio/best" and the
\* post-processor chain is exactly one mp3/192 audio extraction, whatever
\* quality and format_code are.
C1_AudioOnlyPrecedence ==
    (Built /\ args.audio) =>
        /\ ydl_opts["format"] = "bestaudio/best"
        /\ "postprocessors" \in DOMAIN ydl_opts
        /\ Len(ydl_opts["postprocessors"]) = 1
        /\ ydl_opts["postprocessors"][1] =
               [key |-> "FFmpegExtractAudio", preferredcodec |-> "mp3",
                preferredquality |-> "192"]

C1_Witness ==
    /\ Built /\ args.audio
    /\ args.quality = "bogus" /\ args.format = Some("137+140")
    /\ ydl_opts["format"] = "bestaudio/best"

\* C2: without audio_only, a format_code that is set (the empty string
\* included) is the format selector verbatim, whatever quality is.
C2_FormatCodeVerbatim ==
    (Built /\ ~args.audio /\ args.format # None) =>
        ydl_opts["format"] = args.format[1]

\* C3: without audio_only and format_code, a quality that is neither "best",
\* "worst" nor a height produces no format selector, never reaches
\* extract_info or download, and ends in a ConfigurationError.
C3_BogusQualityRejected ==
    (/\ args.command = "download" /\ ~args.audio /\ args.format = None
     /\ args.quality \notin {"best", "worst"} \cup NumericQualities) =>
        /\ "format" \notin DOMAIN ydl_opts
        /\ Count("extract_info") = 0 /\ Count("download") = 0
        /\ Terminal => exc.type = "ConfigurationError"

\* C4: without audio_only and format_code the selector follows quality:
\* best, worst, or the height cap with the same height in both places; no
\* post-processor chain is attached.
ExpectedSelector(q) ==
    CASE q = "best" -> "bestvideo+bestaudio/best"
      [] q = "worst" -> "worst"
      [] q = "720" -> "bestvideo[height<=720]+bestaudio/best[height<=720]"
      [] q = "1080" -> "bestvideo[height<=1080]+bestaudio/best[height<=1080]"

C4_QualitySelector ==
    (/\ Built /\ ~args.audio /\ args.format = None
     /\ args.quality \in {"best", "worst"} \cup NumericQualities) =>
        /\ ydl_opts["format"] = ExpectedSelector(args.quality)
        /\ "postprocessors" \notin DOMAIN ydl_opts

C4_Witness ==
    /\ Built /\ ~args.audio /\ args.format = None /\ args.quality = "720"
    /\ ydl_opts["format"] = "bestvideo[height<=720]+bestaudio/best[height<=720]"

\* C5: a download run interrupted during extract_info or during download
\* ends Cancelled: the cancellation line is printed, download_video returns
\* False, neither the error nor the success line is printed, and the
\* interrupt does not leave download_video.
C5_InterruptIsCancelled ==
    (/\ args.command = "download" /\ Terminal
     /\ Interrupted("extract_info") \/ Interrupted("download")) =>
        /\ pc = "done" /\ exc = NoExc
        /\ retval = "False"
        /\ Len(Lines(113)) = 1
        /\ ~Printed(116) /\ ~Printed(109)

C5_Witness ==
    /\ args.command = "download" /\ pc = "done"
    /\ Interrupted("download") /\ nevents > 0
    /\ retval = "False" /\ Printed(113)

\* C6: progress_hook never raises, whatever dict the engine delivers, and a
\* downloading event renders each absent field as "N/A".
C6_HookNeverRaises ==
    event # None =>
        /\ hook.raises = ""
        /\ Get(event[1], "status", "") = "downloading" =>
              hook.printed = Some(Line(125,
                  "\r" \o Get(event[1], "_percent_str", "N/A") \o " at "
                       \o Get(event[1], "_speed_str", "N/A") \o " (ETA: "
                       \o Get(event[1], "_eta_str", "N/A") \o ")   "))

\* C7: list_formats prints one row per format record, in order, and the size
\* column is "N/A" exactly when neither size is known and the known size in
\* MB otherwise, also when filesize_approx is present but None and filesize
\* is known.  (A size of 0 is read as unknown, in the claim's favour.)
KnownSize(f) ==
    IF TruthyInt(Get(f, "filesize_approx", NoneInt)) THEN f["filesize_approx"]
    ELSE IF TruthyInt(Get(f, "filesize", NoneInt)) THEN f["filesize"]
    ELSE NoneInt
ExpectedSize(f) ==
    CASE KnownSize(f) = NoneInt -> "N/A"
      [] KnownSize(f) = 1572864 -> "1.5MB"
      [] KnownSize(f) = 786432 -> "0.8MB"
IdColumn(row) == SubSeq(row, 1, 10)
SizeColumn(row) == SubSeq(row, 39, 53)

C7_RowsAndSizes ==
    (/\ args.command = "list" /\ pc = "done" /\ info # None
     /\ "formats" \in DOMAIN info[1]) =>
        LET fs == info[1]["formats"]
            rows == Lines(156)
        IN  /\ Len(rows) = Len(fs)
            /\ \A k \in DOMAIN fs :
                  /\ IdColumn(rows[k].text) = Ljust(Get(fs[k], "format_id", "N/A"), 10)
                  /\ SizeColumn(rows[k].text) = Ljust(ExpectedSize(fs[k]), 15)

\* C8: for both commands every failure of extract_info or download (an
\* exception, an interrupt, no metadata) is caught: the run ends normally,
\* nothing leaves main, and exactly one outcome line has been printed.
EngineFailed ==
    \E k \in DOMAIN calls :
        /\ calls[k].fn \in {"extract_info", "download"}
        /\ calls[k].outcome \notin {"ok", "running"}
OutcomeLines == Len(Lines(113)) + Len(Lines(116)) + Len(Lines(166))

C8_FailuresCaught ==
    (Terminal /\ EngineFailed) =>
        /\ pc = "done" /\ exc = NoExc
        /\ OutcomeLines = 1

\* C9: every options dict built by download_video has retries = 5,
\* fragment_retries = 5, ignoreerrors = True, playliststart = start and
\* noplaylist = no_playlist, whatever branch was taken.
C9_FixedSettings ==
    Built =>
        /\ ydl_opts["retries"] = 5
        /\ ydl_opts["fragment_retries"] = 5
        /\ ydl_opts["ignoreerrors"] = TRUE
        /\ ydl_opts["playliststart"] = args.start
        /\ ydl_opts["noplaylist"] = args.no_playlist

C9_Witness ==
    /\ Built /\ args.audio /\ args.subtitle
    /\ args.start = 2 /\ args.no_playlist
    /\ ydl_opts["playliststart"] = 2 /\ ydl_opts["noplaylist"]
    /\ "writesubtitles" \in DOMAIN ydl_opts

\* C10 (amended): in a download run extract_info is called at most once,
\* exactly once when YoutubeDL(ydl_opts) was constructed and the run has
\* ended, and before download; download is called at most once and only
\* after extract_info returned metadata; no call follows a failed or
\* interrupted call; success is printed only after download returned.
CallOrder ==
    /\ Count("YoutubeDL") <= 1 /\ Count("extract_info") <= 1
    /\ Count("download") <= 1
    /\ \A k \in DOMAIN calls :
          /\ calls[k].fn = "download" =>
                /\ k > 1
                /\ calls[k - 1] = Call("extract_info", "ok")
          /\ calls[k].fn = "extract_info" =>
                /\ k > 1
                /\ calls[k - 1] = Call("YoutubeDL", "ok")
          /\ calls[k].outcome \notin {"ok", "running"} => k = Len(calls)
    /\ Printed(109) =>
          /\ Len(calls) = 3
          /\ calls[3] = Call("download", "ok")

C10_CallOrder ==
    args.command = "download" =>
        /\ CallOrder
        /\ (Terminal /\ Call("YoutubeDL", "ok") \in {calls[k] : k \in DOMAIN calls})
              => Count("extract_info") = 1

C10_Witness ==
    /\ args.command = "download" /\ pc = "done"
    /\ calls = <<Call("YoutubeDL", "ok"), Call("extract_info", "ok"),
                 Call("download", "ok")>>
    /\ Printed(109) /\ retval = "True"

\* C10 as stated: extract_info is called exactly once in every download run.
C10_ExtractExactlyOnce ==
    args.command = "download" =>
        /\ CallOrder
        /\ Terminal => Count("extract_info") = 1

====
